---- MODULE Spec2Model ----
(***************************************************************************)
(* Launch and shutdown supervision of trinity (src/trinity/main.py).       *)
(*                                                                         *)
(* Two processes are modelled: the main process (main, trinity_boot,       *)
(* kill_trinity_gracefully) and the networking process (launch_node,       *)
(* handle_networking_exit).  Each has a program counter whose value names  *)
(* the statement it is about to execute.  The interrupt signal of the main *)
(* process is an input that can arrive between any two statements; Python  *)
(* turns it into a KeyboardInterrupt raised at the statement being run.    *)
(***************************************************************************)
EXTENDS Integers, Sequences, FiniteSets, TLC

(* ---- bounds of the model ---- *)
MaxEvents == 1
MaxInterrupts == 2
MaxLogLevels == 2

(* ---- program constants ---- *)
\* networking_process.join(2)
GracePeriod == 2

MAINNET_NETWORK_ID == "mainnet"
ROPSTEN_NETWORK_ID == "ropsten"
MAIN_EVENTBUS_ENDPOINT == "main"
NETWORKING_EVENTBUS_ENDPOINT == "networking"

PRECONFIGURED_NETWORKS == {MAINNET_NETWORK_ID, ROPSTEN_NETWORK_ID}

\* network identifiers a command line can carry
NetworkIds == PRECONFIGURED_NETWORKS \cup {"rinkeby", "custom"}

(* ---- Optional[str] reasons ---- *)
None == [none |-> TRUE, s |-> ""]
Str(s) == [none |-> FALSE, s |-> s]
\* Python truthiness of an Optional[str]
Truthy(r) == ~r.none /\ r.s # ""

KEYBOARD_INTERRUPT_REASON == Str("CTRL+C / Keyboard Interrupt")

\* reasons a ShutdownRequest event can carry
EventReasons == {None, Str(""), Str("test")}

\* mutant: the hint is built whenever a reason is given, the empty one included
Hint_NotNone(reason) == IF reason # None THEN <<"(", reason.s, ")">> ELSE <<>>

\* hint = f"({reason})" if reason else f""      (a sequence of text pieces)
Hint(reason) == IF Truthy(reason) THEN <<"(", reason.s, ")">> ELSE <<>>

\* logger.info('Shutting down Trinity %s', hint)
ShutdownLogLine(hint) == <<"Shutting down Trinity ">> \o hint

\* f"Trinity shutdown complete {hint}\n"
ExitMessage(hint) == <<"Trinity shutdown complete ">> \o hint \o <<"\n">>

\* a text embeds the piece p
Embeds(text, p) == \E i \in 1..Len(text) : text[i] = p

(* ---- command lines ---- *)
\* args.log_levels: "None" (flag absent) or "blanket" (a mapping holding the
\* key None, from --log-level LEVEL)
LogLevelsKinds == {"None", "blanket"}

ArgsSet ==
    [network_id : NetworkIds,
     log_levels : LogLevelsKinds,
     stderr_log_level_given : BOOLEAN,
     func : BOOLEAN]

\* what the file system holds when trinity starts: whether the data directory can
\* be resolved (TrinityConfig.from_parser_args), the state of the data directory
\* (is_data_dir_initialized / initialize_data_dir), and the engines
DataDirStates == {"initialized", "creatable", "AmbigiousFileSystem", "MissingPath"}
Engines == {"leveldb", "rocksdb"}

EnvSet ==
    [from_parser_args : {"ok", "AmbigiousFileSystem"},
     data_dir : DataDirStates,
     db_engine : {"leveldb"},
     on_disk_database_engine : Engines]

VARIABLES
    args,          \* the parsed command line
    env,           \* the file system the run starts on
    levels,        \* the levels of the configured loggers
    extra_kwargs,  \* local variable extra_kwargs of main
    launch_kwargs, \* the keyword arguments launch_node was started with
    mpc,           \* main process: statement about to run
    mainExit,      \* how the main process ended ("" while it runs)
    killCaller,    \* who called kill_trinity_gracefully: "none", "handler", "except"
    killArgs,      \* the arguments of the running kill_trinity_gracefully call
    hint,          \* local variable hint of kill_trinity_gracefully
    busState,      \* event_bus: "none", "created", "started", "stopped"
    mainEndpoint,  \* main_endpoint: "none", "connected", "stopped"
    netEndpoint,   \* networking endpoint: "none", "created", "connected", "stopped"
    mainPM,        \* main PluginManager lifecycle
    workerPM,      \* networking PluginManager lifecycle
    mainQueue,     \* ShutdownRequest events waiting on the main endpoint
    log,           \* what the main logger has been given, in order
    exitMessage,   \* message of ArgumentParser().exit, <<>> before
    calls,         \* how often each operation has been invoked in the run
    run,           \* facts about the current kill_trinity_gracefully execution
    joinClock,     \* time units the running join(2) has waited
    interrupts,    \* interrupt signals delivered to the main process
    wpc,           \* networking process: statement about to run
    pidFile,       \* process_id_file('networking'): "free", "held"
    watcher,       \* handle_networking_exit task
    node           \* node.run() task

vars == <<args, env, levels, extra_kwargs, launch_kwargs, mpc, mainExit, killCaller, killArgs, hint, busState, mainEndpoint,
          netEndpoint, mainPM, workerPM, mainQueue, log, exitMessage, calls, run,
          joinClock, interrupts, wpc, pidFile, watcher, node>>

mainVars == <<args, env, levels, extra_kwargs, mpc, mainExit, killCaller, killArgs, hint, busState, mainEndpoint,
              mainPM, mainQueue, log, exitMessage, run, joinClock, interrupts>>
workerVars == <<wpc, pidFile, watcher, node, workerPM, netEndpoint, launch_kwargs>>

NoCalls ==
    [create_endpoint_networking |-> 0, bus_start |-> 0, spawn |-> 0, subscribe |-> 0,
     prepare |-> 0, worker_prepare |-> 0, func |-> 0, trinity_boot |-> 0,
     protocol |-> 0, shutdown_blocking |-> 0, shutdown_blocking_returned |-> 0,
     endpoint_stop |-> 0, bus_stop |-> 0, join |-> 0, kill |-> 0, exit |-> 0,
     worker_shutdown |-> 0, worker_shutdown_returned |-> 0, worker_endpoint_stop |-> 0,
     publish |-> 0]

\* the per-execution record at the entry of kill_trinity_gracefully
FreshRun ==
    [logged |-> FALSE, shutdown_returned |-> FALSE, endpoint_stopped |-> FALSE,
     bus_stopped |-> FALSE, join_issued |-> FALSE, join_returned |-> FALSE,
     join_waited |-> 0, alive_at_join_return |-> FALSE, checked |-> FALSE,
     alive_at_check |-> FALSE, kills |-> 0, kill_returned |-> FALSE]

NoKillArgs ==
    [networking_process |-> "", plugin_manager |-> "", main_endpoint |-> "",
     event_bus |-> "", reason |-> None]

\* logging levels (logging.DEBUG, logging.INFO, logging.WARNING)
Levels == {10, 20, 30}

\* the sequences over S of length at most n
RECURSIVE SeqsUpTo(_, _)
SeqsUpTo(S, n) ==
    IF n = 0 THEN {<<>>}
    ELSE LET shorter == SeqsUpTo(S, n - 1)
         IN shorter \cup {Append(q, x) : q \in {r \in shorter : Len(r) = n - 1}, x \in S}

\* the logger levels a command line can lead to: the values of the log_levels
\* mapping are there only when the mapping has entries
LevelsFor(a) ==
    [stderr_logger : Levels,
     file_logger : Levels,
     log_levels : IF a.log_levels \in {"None", "empty"}
                    THEN {<<>>}
                    ELSE SeqsUpTo(Levels, MaxLogLevels) \ {<<>>}]

\* the levels of a run with the default loggers
DefaultLevels(a) ==
    [stderr_logger |-> 20, file_logger |-> 10,
     log_levels |-> IF a.log_levels \in {"None", "empty"} THEN <<>> ELSE <<10>>]

NoKwargs == [log_queue |-> "", log_level |-> 0, profile |-> ""]

\* the state at the start of main(), whatever the inputs
InitState ==
    /\ extra_kwargs = NoKwargs
    /\ launch_kwargs = NoKwargs
    /\ mpc = "main"
    /\ mainExit = ""
    /\ killCaller = "none"
    /\ killArgs = NoKillArgs
    /\ hint = <<>>
    /\ busState = "none"
    /\ mainEndpoint = "none"
    /\ netEndpoint = "none"
    /\ mainPM = "none"
    /\ workerPM = "none"
    /\ mainQueue = <<>>
    /\ log = <<>>
    /\ exitMessage = <<>>
    /\ calls = NoCalls
    /\ run = FreshRun
    /\ joinClock = 0
    /\ interrupts = 0
    /\ wpc = "not_started"
    /\ pidFile = "free"
    /\ watcher = "none"
    /\ node = "none"

Init ==
    /\ args \in ArgsSet
    /\ env \in EnvSet
    /\ levels = DefaultLevels(args)
    /\ InitState

MainEnded == mpc \in {"aborted", "exited", "crashed", "returned"}

\* the main process moves from statement `from` to statement `to`
Goto(from, to) == mpc = from /\ mpc' = to

\* the main process dies at statement `from` with an error
Die(from, end, how) == mpc = from /\ mpc' = end /\ mainExit' = how

(***************************************************************************)
(* main()                                                                  *)
(***************************************************************************)

\* event_bus = EventBus(ctx); main_endpoint = create_endpoint(...); connect_no_wait()
MainConnect ==
    /\ Goto("main", "setup_plugins")
    /\ busState' = "created"
    /\ mainEndpoint' = "connected"
    /\ UNCHANGED <<args, env, levels, extra_kwargs, mainExit, killCaller, killArgs, hint, mainPM, mainQueue, log,
                   exitMessage, calls, run, joinClock, interrupts>>
    /\ UNCHANGED workerVars

\* plugin_manager = setup_plugins(MainAndIsolatedProcessScope(...)); parse_args()
MainSetupPlugins ==
    /\ Goto("setup_plugins", "check_network")
    /\ mainPM' = "Created"
    /\ UNCHANGED <<args, env, levels, extra_kwargs, mainExit, killCaller, killArgs, hint, busState, mainEndpoint,
                   mainQueue, log, exitMessage, calls, run, joinClock, interrupts>>
    /\ UNCHANGED workerVars

\* mutant: the network identifier is not checked
MainCheckNetwork_Skipped ==
    /\ Goto("check_network", "check_logging")
    /\ UNCHANGED <<args, env, levels, extra_kwargs, mainExit, killCaller, killArgs, hint, busState, mainEndpoint,
                   mainPM, mainQueue, log, exitMessage, calls, run, joinClock, interrupts>>
    /\ UNCHANGED workerVars

\* if args.network_id not in PRECONFIGURED_NETWORKS: raise NotImplementedError
MainCheckNetwork ==
    /\ IF args.network_id \notin PRECONFIGURED_NETWORKS
         THEN Die("check_network", "aborted", "NotImplementedError")
         ELSE Goto("check_network", "check_logging") /\ UNCHANGED mainExit
    /\ UNCHANGED <<args, env, levels, extra_kwargs, killCaller, killArgs, hint, busState, mainEndpoint, mainPM,
                   mainQueue, log, exitMessage, calls, run, joinClock, interrupts>>
    /\ UNCHANGED workerVars

has_ambigous_logging_config ==
    /\ args.log_levels # "None"
    /\ args.log_levels = "blanket"
    /\ args.stderr_log_level_given

\* if has_ambigous_logging_config: parser.error(...)
MainCheckLogging ==
    /\ IF has_ambigous_logging_config
         THEN Die("check_logging", "aborted", "parser.error: ambiguous logging")
         ELSE Goto("check_logging", "stderr_logging") /\ UNCHANGED mainExit
    /\ UNCHANGED <<args, env, levels, extra_kwargs, killCaller, killArgs, hint, busState, mainEndpoint, mainPM,
                   mainQueue, log, exitMessage, calls, run, joinClock, interrupts>>
    /\ UNCHANGED workerVars

\* setup_trinity_stderr_logging(...); setup_log_levels(...)
MainSetupStderrLogging ==
    /\ Goto("stderr_logging", "build_config")
    /\ UNCHANGED <<args, env, levels, extra_kwargs, mainExit, killCaller, killArgs, hint, busState, mainEndpoint,
                   mainPM, mainQueue, log, exitMessage, calls, run, joinClock,
                   interrupts>>
    /\ UNCHANGED workerVars

\* try: TrinityConfig.from_parser_args(args)
\* except AmbigiousFileSystem: parser.error(...)
MainBuildConfig ==
    /\ IF env.from_parser_args = "AmbigiousFileSystem"
           THEN Die("build_config", "aborted", "parser.error: ambiguous filesystem")
           ELSE Goto("build_config", "init_data_dir") /\ UNCHANGED mainExit
    /\ UNCHANGED <<args, env, levels, extra_kwargs, killCaller, killArgs, hint, busState, mainEndpoint, mainPM,
                   mainQueue, log, exitMessage, calls, run, joinClock, interrupts>>
    /\ UNCHANGED workerVars

is_data_dir_initialized == env.data_dir = "initialized"

\* what initialize_data_dir(trinity_config) does on this file system
initialize_data_dir == IF env.data_dir = "creatable" THEN "ok" ELSE env.data_dir

\* if not is_data_dir_initialized(trinity_config): initialize_data_dir(...)
MainInitDataDir ==
    /\ IF ~is_data_dir_initialized /\ initialize_data_dir = "AmbigiousFileSystem"
           THEN Die("init_data_dir", "aborted", "parser.error: ambiguous filesystem")
           ELSE IF ~is_data_dir_initialized /\ initialize_data_dir = "MissingPath"
             THEN Die("init_data_dir", "aborted", "parser.error: missing path")
             ELSE Goto("init_data_dir", "check_db_engine") /\ UNCHANGED mainExit
    /\ UNCHANGED <<args, env, levels, extra_kwargs, killCaller, killArgs, hint, busState, mainEndpoint, mainPM,
                   mainQueue, log, exitMessage, calls, run, joinClock, interrupts>>
    /\ UNCHANGED workerVars

\* mutant: the engines are not compared
MainCheckDbEngine_Skipped ==
    /\ Goto("check_db_engine", "file_logging")
    /\ UNCHANGED <<args, env, levels, extra_kwargs, mainExit, killCaller, killArgs, hint, busState, mainEndpoint,
                   mainPM, mainQueue, log, exitMessage, calls, run, joinClock, interrupts>>
    /\ UNCHANGED workerVars

\* if trinity_config.db_engine != trinity_config.on_disk_database_engine: parser.error
MainCheckDbEngine ==
    /\ IF env.db_engine # env.on_disk_database_engine
           THEN Die("check_db_engine", "aborted", "parser.error: database engine mismatch")
           ELSE Goto("check_db_engine", "file_logging") /\ UNCHANGED mainExit
    /\ UNCHANGED <<args, env, levels, extra_kwargs, killCaller, killArgs, hint, busState, mainEndpoint, mainPM,
                   mainQueue, log, exitMessage, calls, run, joinClock, interrupts>>
    /\ UNCHANGED workerVars

\* (args.log_levels or {}).values()
LogLevelsValues == IF args.log_levels \in {"None", "empty"} THEN <<>> ELSE levels.log_levels

\* min(first, *rest), as Python computes it: the first smallest argument
RECURSIVE PyMin(_, _)
PyMin(first, rest) ==
    IF rest = <<>> THEN first
    ELSE PyMin(IF Head(rest) < first THEN Head(rest) ELSE first, Tail(rest))

\* mutant: the file logger's level is left out of the minimum
min_configured_log_level_NoFile == PyMin(levels.stderr_logger, LogLevelsValues)

\* min(stderr_logger.level, file_logger.level, *(args.log_levels or {}).values())
min_configured_log_level ==
    PyMin(levels.stderr_logger, <<levels.file_logger>> \o LogLevelsValues)

\* setup_trinity_file_and_queue_logging(...); display_launch_logs(...); extra_kwargs
MainSetupFileLogging ==
    /\ Goto("file_logging", "dispatch")
    /\ log' = Append(log, <<"TRINITY_HEADER">>)
    /\ extra_kwargs' = [log_queue |-> "log_queue",
                        log_level |-> min_configured_log_level,
                        profile |-> "args.profile"]
    /\ UNCHANGED <<args, env, levels, mainExit, killCaller, killArgs, hint, busState, mainEndpoint,
                   mainPM, mainQueue, exitMessage, calls, run, joinClock, interrupts>>
    /\ UNCHANGED workerVars

\* mutant: the subcommand handler runs and the boot sequence follows it
MainDispatch_Both ==
    /\ Goto("dispatch", "boot_listener")
    /\ calls' = IF args.func THEN [calls EXCEPT !.func = @ + 1]
                            ELSE [calls EXCEPT !.trinity_boot = @ + 1]
    /\ UNCHANGED <<args, env, levels, extra_kwargs, mainExit, killCaller, killArgs, hint,
                   busState, mainEndpoint, mainPM, mainQueue, log, exitMessage, run,
                   joinClock, interrupts>>
    /\ UNCHANGED workerVars

\* if hasattr(args, 'func'): args.func(args, trinity_config) else: trinity_boot(...)
MainDispatch ==
    /\ IF args.func
         THEN /\ Die("dispatch", "returned", "func")
              /\ calls' = [calls EXCEPT !.func = @ + 1]
         ELSE /\ Goto("dispatch", "boot_listener")
              /\ calls' = [calls EXCEPT !.trinity_boot = @ + 1]
              /\ UNCHANGED mainExit
    /\ UNCHANGED <<args, env, levels, extra_kwargs, killCaller, killArgs, hint, busState, mainEndpoint, mainPM,
                   mainQueue, log, exitMessage, run, joinClock, interrupts>>
    /\ UNCHANGED workerVars

(***************************************************************************)
(* trinity_boot()                                                          *)
(***************************************************************************)

WorkerAlive == wpc \notin {"not_started", "exited", "crashed", "killed"}

\* listener.start()
BootListenerStart ==
    /\ Goto("boot_listener", "boot_create_endpoint")
    /\ UNCHANGED <<args, env, levels, extra_kwargs, mainExit, killCaller, killArgs, hint, busState, mainEndpoint,
                   mainPM, mainQueue, log, exitMessage, calls, run, joinClock,
                   interrupts>>
    /\ UNCHANGED workerVars

\* networking_endpoint = event_bus.create_endpoint(NETWORKING_EVENTBUS_ENDPOINT)
BootCreateNetworkingEndpoint ==
    /\ Goto("boot_create_endpoint", "boot_bus_start")
    /\ netEndpoint' = "created"
    /\ calls' = [calls EXCEPT !.create_endpoint_networking = @ + 1]
    /\ UNCHANGED <<args, env, levels, extra_kwargs, mainExit, killCaller, killArgs, hint, busState, mainEndpoint,
                   mainPM, mainQueue, log, exitMessage, run, joinClock, interrupts>>
    /\ UNCHANGED <<wpc, pidFile, watcher, node, workerPM, launch_kwargs>>

\* mutant: the broker is not started before the networking process
BootEventBusStart_Deferred ==
    /\ Goto("boot_bus_start", "boot_spawn")
    /\ UNCHANGED <<args, env, levels, extra_kwargs, mainExit, killCaller, killArgs, hint,
                   busState, mainEndpoint, mainPM, mainQueue, log, exitMessage, calls, run,
                   joinClock, interrupts>>
    /\ UNCHANGED workerVars

\* event_bus.start()
BootEventBusStart ==
    /\ Goto("boot_bus_start", "boot_spawn")
    /\ busState' = "started"
    /\ calls' = [calls EXCEPT !.bus_start = @ + 1]
    /\ UNCHANGED <<args, env, levels, extra_kwargs, mainExit, killCaller, killArgs, hint, mainEndpoint, mainPM,
                   mainQueue, log, exitMessage, run, joinClock, interrupts>>
    /\ UNCHANGED workerVars

\* networking_process = ctx.Process(target=launch_node, ...); networking_process.start()
BootSpawn ==
    /\ Goto("boot_spawn", "boot_subscribe")
    /\ wpc' = "pid_file"
    /\ launch_kwargs' = extra_kwargs
    /\ calls' = [calls EXCEPT !.spawn = @ + 1]
    /\ log' = Append(log, <<"Started networking process">>)
    /\ UNCHANGED <<args, env, levels, extra_kwargs, mainExit, killCaller, killArgs, hint,
                   busState, mainEndpoint, mainPM, mainQueue, exitMessage, run, joinClock,
                   interrupts>>
    /\ UNCHANGED <<pidFile, watcher, node, workerPM, netEndpoint>>

\* mutant: the shutdown handler is subscribed twice
BootSubscribe_Twice ==
    /\ Goto("boot_subscribe", "boot_prepare")
    /\ calls' = [calls EXCEPT !.subscribe = @ + 2]
    /\ UNCHANGED <<args, env, levels, extra_kwargs, mainExit, killCaller, killArgs, hint, busState, mainEndpoint,
                   mainPM, mainQueue, log, exitMessage, run, joinClock, interrupts>>
    /\ UNCHANGED workerVars

\* main_endpoint.subscribe(ShutdownRequest, lambda ev: kill_trinity_gracefully(...))
BootSubscribe ==
    /\ Goto("boot_subscribe", "boot_prepare")
    /\ calls' = [calls EXCEPT !.subscribe = @ + 1]
    /\ UNCHANGED <<args, env, levels, extra_kwargs, mainExit, killCaller, killArgs, hint, busState, mainEndpoint,
                   mainPM, mainQueue, log, exitMessage, run, joinClock, interrupts>>
    /\ UNCHANGED workerVars

\* plugin_manager.prepare(args, trinity_config, extra_kwargs); a plugin's setup may raise
BootPrepare ==
    /\ calls' = [calls EXCEPT !.prepare = @ + 1]
    /\ \E outcome \in {"ok", "raise"} :
         IF outcome = "raise"
           THEN Die("boot_prepare", "crashed", "prepare error") /\ UNCHANGED mainPM
           ELSE Goto("boot_prepare", "boot_run_forever") /\ mainPM' = "Prepared"
                /\ UNCHANGED mainExit
    /\ UNCHANGED <<args, env, levels, extra_kwargs, killCaller, killArgs, hint, busState, mainEndpoint,
                   mainQueue, log, exitMessage, run, joinClock, interrupts>>
    /\ UNCHANGED workerVars

\* try: loop = asyncio.get_event_loop(); loop.run_forever()
BootRunForever ==
    /\ Goto("boot_run_forever", "loop")
    /\ UNCHANGED <<args, env, levels, extra_kwargs, mainExit, killCaller, killArgs, hint, busState, mainEndpoint,
                   mainPM, mainQueue, log, exitMessage, calls, run, joinClock,
                   interrupts>>
    /\ UNCHANGED workerVars

\* some component publishes ShutdownRequest(reason) on the main channel
PublishShutdownRequest ==
    /\ ~MainEnded
    /\ busState = "started"
    /\ mainEndpoint = "connected"
    /\ calls.publish < MaxEvents
    /\ \E reason \in EventReasons :
         mainQueue' = Append(mainQueue, [reason |-> reason])
    /\ calls' = [calls EXCEPT !.publish = @ + 1]
    /\ UNCHANGED <<args, env, levels, extra_kwargs, mpc, mainExit, killCaller, killArgs, hint, busState,
                   mainEndpoint, mainPM, log, exitMessage, run, joinClock, interrupts>>
    /\ UNCHANGED workerVars

\* mutant: the lambda leaves the reason to its default
HandlerKillArgs_NoReason(ev) ==
    [networking_process |-> "networking_process", plugin_manager |-> "plugin_manager",
     main_endpoint |-> MAIN_EVENTBUS_ENDPOINT, event_bus |-> "event_bus",
     reason |-> None]

\* the arguments the subscribed lambda passes to kill_trinity_gracefully
HandlerKillArgs(ev) ==
    [networking_process |-> "networking_process", plugin_manager |-> "plugin_manager",
     main_endpoint |-> MAIN_EVENTBUS_ENDPOINT, event_bus |-> "event_bus",
     reason |-> ev.reason]

\* mutant: the except clause leaves the reason to its default
InterruptKillArgs_NoReason ==
    [networking_process |-> "networking_process", plugin_manager |-> "plugin_manager",
     main_endpoint |-> MAIN_EVENTBUS_ENDPOINT, event_bus |-> "event_bus",
     reason |-> None]

\* the arguments the except KeyboardInterrupt clause passes
InterruptKillArgs ==
    [networking_process |-> "networking_process", plugin_manager |-> "plugin_manager",
     main_endpoint |-> MAIN_EVENTBUS_ENDPOINT, event_bus |-> "event_bus",
     reason |-> KEYBOARD_INTERRUPT_REASON]

\* a call of kill_trinity_gracefully(...): control is at its first statement
EnterKill(caller, a) ==
    /\ mpc' = "kill_log"
    /\ killCaller' = caller
    /\ killArgs' = a
    /\ run' = FreshRun
    /\ calls' = [calls EXCEPT !.protocol = @ + 1]

\* the running loop hands the next ShutdownRequest to the subscribed handler
HandleShutdownRequest ==
    /\ mpc = "loop"
    /\ calls.subscribe > 0
    /\ mainQueue # <<>>
    /\ EnterKill("handler", HandlerKillArgs(Head(mainQueue)))
    /\ mainQueue' = Tail(mainQueue)
    /\ UNCHANGED <<args, env, levels, extra_kwargs, mainExit, hint, busState, mainEndpoint, mainPM, log,
                   exitMessage, joinClock, interrupts>>
    /\ UNCHANGED workerVars

InKill ==
    mpc \in {"kill_log", "kill_shutdown_blocking", "kill_shutdown_wait",
             "kill_endpoint_stop", "kill_bus_stop", "kill_join", "kill_join_wait",
             "kill_is_alive", "kill_process", "kill_process_wait",
             "kill_log_terminated", "kill_exit"}

\* mutant: the try block also encloses plugin_manager.prepare()
InTry_FromPrepare ==
    \/ mpc \in {"boot_prepare", "boot_run_forever", "loop"}
    \/ InKill /\ killCaller = "handler"

\* control is inside the try block of trinity_boot
InTry ==
    \/ mpc \in {"boot_run_forever", "loop"}
    \/ InKill /\ killCaller = "handler"

\* SIGINT in the main process: KeyboardInterrupt is raised at the running statement;
\* inside the try block the except clause calls kill_trinity_gracefully, anywhere
\* else nothing catches it
KeyboardInterrupt ==
    /\ ~MainEnded
    /\ interrupts < MaxInterrupts
    /\ interrupts' = interrupts + 1
    /\ IF InTry
         THEN /\ EnterKill("except", InterruptKillArgs)
              /\ UNCHANGED mainExit
         ELSE /\ mpc' = "crashed"
              /\ mainExit' = "KeyboardInterrupt"
              /\ UNCHANGED <<killCaller, killArgs, run, calls>>
    /\ UNCHANGED <<args, env, levels, extra_kwargs, hint, busState, mainEndpoint, mainPM, mainQueue, log,
                   exitMessage, joinClock>>
    /\ UNCHANGED workerVars

(***************************************************************************)
(* kill_trinity_gracefully()                                               *)
(***************************************************************************)

\* hint = f"({reason})" if reason else f""; logger.info('Shutting down Trinity %s', hint)
KillLog ==
    /\ Goto("kill_log", "kill_shutdown_blocking")
    /\ hint' = Hint(killArgs.reason)
    /\ log' = Append(log, ShutdownLogLine(hint'))
    /\ run' = [run EXCEPT !.logged = TRUE]
    /\ UNCHANGED <<args, env, levels, extra_kwargs, mainExit, killCaller, killArgs, busState, mainEndpoint, mainPM,
                   mainQueue, exitMessage, calls, joinClock, interrupts>>
    /\ UNCHANGED workerVars

\* mutant: main_endpoint.stop() is executed ahead of plugin_manager.shutdown_blocking()
KillShutdownBlockingCall_StopsEndpoint ==
    /\ Goto("kill_shutdown_blocking", "kill_shutdown_wait")
    /\ mainEndpoint' = "stopped"
    /\ mainPM' = IF mainPM = "Stopped" THEN "Stopped" ELSE "ShuttingDown"
    /\ calls' = [calls EXCEPT !.shutdown_blocking = @ + 1, !.endpoint_stop = @ + 1]
    /\ run' = [run EXCEPT !.endpoint_stopped = TRUE]
    /\ UNCHANGED <<args, env, levels, extra_kwargs, mainExit, killCaller, killArgs, hint, busState,
                   mainQueue, log, exitMessage, joinClock, interrupts>>
    /\ UNCHANGED workerVars

\* plugin_manager.shutdown_blocking() is called (a call on a stopped host does nothing)
KillShutdownBlockingCall ==
    /\ Goto("kill_shutdown_blocking", "kill_shutdown_wait")
    /\ mainPM' = IF mainPM = "Stopped" THEN "Stopped" ELSE "ShuttingDown"
    /\ calls' = [calls EXCEPT !.shutdown_blocking = @ + 1]
    /\ UNCHANGED <<args, env, levels, extra_kwargs, mainExit, killCaller, killArgs, hint, busState, mainEndpoint,
                   mainQueue, log, exitMessage, run, joinClock, interrupts>>
    /\ UNCHANGED workerVars

\* plugin_manager.shutdown_blocking() returns
KillShutdownBlockingReturn ==
    /\ Goto("kill_shutdown_wait", "kill_endpoint_stop")
    /\ mainPM' = "Stopped"
    /\ calls' = [calls EXCEPT !.shutdown_blocking_returned = @ + 1]
    /\ run' = [run EXCEPT !.shutdown_returned = TRUE]
    /\ UNCHANGED <<args, env, levels, extra_kwargs, mainExit, killCaller, killArgs, hint, busState, mainEndpoint,
                   mainQueue, log, exitMessage, joinClock, interrupts>>
    /\ UNCHANGED workerVars

\* mutant: the main protocol stops the networking channel as well
KillEndpointStop_Both ==
    /\ Goto("kill_endpoint_stop", "kill_bus_stop")
    /\ mainEndpoint' = "stopped"
    /\ netEndpoint' = "stopped"
    /\ calls' = [calls EXCEPT !.endpoint_stop = @ + 1]
    /\ run' = [run EXCEPT !.endpoint_stopped = TRUE]
    /\ UNCHANGED <<args, env, levels, extra_kwargs, mainExit, killCaller, killArgs, hint,
                   busState, mainPM, mainQueue, log, exitMessage, joinClock, interrupts>>
    /\ UNCHANGED <<wpc, pidFile, watcher, node, workerPM, launch_kwargs>>

\* main_endpoint.stop()
KillEndpointStop ==
    /\ Goto("kill_endpoint_stop", "kill_bus_stop")
    /\ mainEndpoint' = "stopped"
    /\ calls' = [calls EXCEPT !.endpoint_stop = @ + 1]
    /\ run' = [run EXCEPT !.endpoint_stopped = TRUE]
    /\ UNCHANGED <<args, env, levels, extra_kwargs, mainExit, killCaller, killArgs, hint, busState, mainPM,
                   mainQueue, log, exitMessage, joinClock, interrupts>>
    /\ UNCHANGED workerVars

\* event_bus.stop()
KillBusStop ==
    /\ Goto("kill_bus_stop", "kill_join")
    /\ busState' = "stopped"
    /\ calls' = [calls EXCEPT !.bus_stop = @ + 1]
    /\ run' = [run EXCEPT !.bus_stopped = TRUE]
    /\ UNCHANGED <<args, env, levels, extra_kwargs, mainExit, killCaller, killArgs, hint, mainEndpoint, mainPM,
                   mainQueue, log, exitMessage, joinClock, interrupts>>
    /\ UNCHANGED workerVars

\* networking_process.join(2) is called
KillJoinCall ==
    /\ Goto("kill_join", "kill_join_wait")
    /\ joinClock' = 0
    /\ calls' = [calls EXCEPT !.join = @ + 1]
    /\ run' = [run EXCEPT !.join_issued = TRUE]
    /\ UNCHANGED <<args, env, levels, extra_kwargs, mainExit, killCaller, killArgs, hint, busState, mainEndpoint,
                   mainPM, mainQueue, log, exitMessage, interrupts>>
    /\ UNCHANGED workerVars

\* one time unit passes while join(2) waits
Tick ==
    /\ mpc = "kill_join_wait"
    /\ joinClock < GracePeriod
    /\ joinClock' = joinClock + 1
    /\ UNCHANGED <<args, env, levels, extra_kwargs, mpc, mainExit, killCaller, killArgs, hint, busState,
                   mainEndpoint, mainPM, mainQueue, log, exitMessage, calls, run,
                   interrupts>>
    /\ UNCHANGED workerVars

\* mutant: the join does not wait (join(0))
KillJoinReturn_NoWait ==
    /\ Goto("kill_join_wait", "kill_is_alive")
    /\ run' = [run EXCEPT !.join_returned = TRUE,
                          !.join_waited = joinClock,
                          !.alive_at_join_return = WorkerAlive]
    /\ UNCHANGED <<args, env, levels, extra_kwargs, mainExit, killCaller, killArgs, hint, busState, mainEndpoint,
                   mainPM, mainQueue, log, exitMessage, calls, joinClock, interrupts>>
    /\ UNCHANGED workerVars

\* join(2) returns: the process has ended or the timeout has elapsed
KillJoinReturn ==
    /\ Goto("kill_join_wait", "kill_is_alive")
    /\ ~WorkerAlive \/ joinClock = GracePeriod
    /\ run' = [run EXCEPT !.join_returned = TRUE,
                          !.join_waited = joinClock,
                          !.alive_at_join_return = WorkerAlive]
    /\ UNCHANGED <<args, env, levels, extra_kwargs, mainExit, killCaller, killArgs, hint, busState, mainEndpoint,
                   mainPM, mainQueue, log, exitMessage, calls, joinClock, interrupts>>
    /\ UNCHANGED workerVars

\* mutant: the process is killed whether or not it is alive
KillIsAlive_AlwaysKill ==
    /\ Goto("kill_is_alive", "kill_process")
    /\ run' = [run EXCEPT !.checked = TRUE,
                          !.alive_at_check = WorkerAlive]
    /\ UNCHANGED <<args, env, levels, extra_kwargs, mainExit, killCaller, killArgs, hint, busState, mainEndpoint,
                   mainPM, mainQueue, log, exitMessage, calls, joinClock, interrupts>>
    /\ UNCHANGED workerVars

\* if networking_process.is_alive():
KillIsAlive ==
    /\ mpc = "kill_is_alive"
    /\ mpc' = IF WorkerAlive THEN "kill_process" ELSE "kill_log_terminated"
    /\ run' = [run EXCEPT !.checked = TRUE, !.alive_at_check = WorkerAlive]
    /\ UNCHANGED <<args, env, levels, extra_kwargs, mainExit, killCaller, killArgs, hint, busState, mainEndpoint,
                   mainPM, mainQueue, log, exitMessage, calls, joinClock, interrupts>>
    /\ UNCHANGED workerVars

\* kill_process_gracefully(networking_process, logger) is called
KillProcessCall ==
    /\ Goto("kill_process", "kill_process_wait")
    /\ calls' = [calls EXCEPT !.kill = @ + 1]
    /\ run' = [run EXCEPT !.kills = @ + 1]
    /\ UNCHANGED <<args, env, levels, extra_kwargs, mainExit, killCaller, killArgs, hint, busState, mainEndpoint,
                   mainPM, mainQueue, log, exitMessage, joinClock, interrupts>>
    /\ UNCHANGED workerVars

\* kill_process_gracefully returns: a process that was still running has been killed
KillProcessReturn ==
    /\ Goto("kill_process_wait", "kill_log_terminated")
    /\ wpc' = IF WorkerAlive THEN "killed" ELSE wpc
    /\ run' = [run EXCEPT !.kill_returned = TRUE]
    /\ UNCHANGED <<args, env, levels, extra_kwargs, mainExit, killCaller, killArgs, hint, busState, mainEndpoint,
                   mainPM, mainQueue, log, exitMessage, calls, joinClock, interrupts>>
    /\ UNCHANGED <<pidFile, watcher, node, workerPM, netEndpoint, launch_kwargs>>

\* logger.info('Networking process (pid=%d) terminated', ...)
KillLogTerminated ==
    /\ Goto("kill_log_terminated", "kill_exit")
    /\ log' = Append(log, <<"Networking process terminated">>)
    /\ UNCHANGED <<args, env, levels, extra_kwargs, mainExit, killCaller, killArgs, hint, busState, mainEndpoint,
                   mainPM, mainQueue, exitMessage, calls, run, joinClock, interrupts>>
    /\ UNCHANGED workerVars

\* ArgumentParser().exit(message=f"Trinity shutdown complete {hint}\n")
KillExit ==
    /\ Die("kill_exit", "exited", "SystemExit")
    /\ exitMessage' = ExitMessage(hint)
    /\ calls' = [calls EXCEPT !.exit = @ + 1]
    /\ UNCHANGED <<args, env, levels, extra_kwargs, killCaller, killArgs, hint, busState, mainEndpoint, mainPM,
                   mainQueue, log, run, joinClock, interrupts>>
    /\ UNCHANGED workerVars

(***************************************************************************)
(* launch_node() and handle_networking_exit(), in the networking process   *)
(***************************************************************************)

\* the networking process moves from statement `from` to statement `to`
WGoto(from, to) == wpc = from /\ wpc' = to

\* with trinity_config.process_id_file('networking'):  (a marker that is held is fatal)
WorkerAcquirePidFile ==
    /\ \E outcome \in {"ok", "raise"} :
         IF outcome = "raise"
           THEN WGoto("pid_file", "crashed") /\ UNCHANGED pidFile
           ELSE WGoto("pid_file", "build_node") /\ pidFile' = "held"
    /\ UNCHANGED <<watcher, node, workerPM, netEndpoint, calls, launch_kwargs>>
    /\ UNCHANGED mainVars

\* node = NodeClass(endpoint, trinity_config); loop = node.get_event_loop()
WorkerBuildNode ==
    /\ \E outcome \in {"ok", "raise"} :
         IF outcome = "raise"
           THEN WGoto("build_node", "unwind") /\ UNCHANGED node
           ELSE WGoto("build_node", "connect") /\ node' = "built"
    /\ UNCHANGED <<pidFile, watcher, workerPM, netEndpoint, calls, launch_kwargs>>
    /\ UNCHANGED mainVars

\* mutant: the networking channel is left unconnected
WorkerConnect_Skipped ==
    /\ WGoto("connect", "setup_plugins")
    /\ UNCHANGED <<pidFile, watcher, node, workerPM, netEndpoint, calls, launch_kwargs>>
    /\ UNCHANGED mainVars

\* endpoint.connect_no_wait(loop)
WorkerConnect ==
    /\ WGoto("connect", "setup_plugins")
    /\ netEndpoint' = "connected"
    /\ UNCHANGED <<pidFile, watcher, node, workerPM, calls, launch_kwargs>>
    /\ UNCHANGED mainVars

\* plugin_manager = setup_plugins(SharedProcessScope(endpoint))
WorkerSetupPlugins ==
    /\ WGoto("setup_plugins", "prepare")
    /\ workerPM' = "Created"
    /\ UNCHANGED <<pidFile, watcher, node, netEndpoint, calls, launch_kwargs>>
    /\ UNCHANGED mainVars

\* plugin_manager.prepare(args, trinity_config); a plugin's setup may raise
WorkerPrepare ==
    /\ calls' = [calls EXCEPT !.worker_prepare = @ + 1]
    /\ \E outcome \in {"ok", "raise"} :
         IF outcome = "raise"
           THEN WGoto("prepare", "unwind") /\ UNCHANGED workerPM
           ELSE WGoto("prepare", "schedule") /\ workerPM' = "Prepared"
    /\ UNCHANGED <<pidFile, watcher, node, netEndpoint, launch_kwargs>>
    /\ UNCHANGED mainVars

\* asyncio.ensure_future(handle_networking_exit(...)); asyncio.ensure_future(node.run())
WorkerSchedule ==
    /\ WGoto("schedule", "run_forever")
    /\ watcher' = "scheduled"
    /\ node' = "scheduled"
    /\ UNCHANGED <<pidFile, workerPM, netEndpoint, calls, launch_kwargs>>
    /\ UNCHANGED mainVars

\* loop.run_forever(): the scheduled tasks start
WorkerRunForever ==
    /\ WGoto("run_forever", "loop")
    /\ watcher' = "waiting"
    /\ node' = "running"
    /\ UNCHANGED <<pidFile, workerPM, netEndpoint, calls, launch_kwargs>>
    /\ UNCHANGED mainVars

\* async with exit_signal_with_service(service): the exit signal arrives and the
\* service is cancelled
WatcherExitSignal ==
    /\ wpc = "loop"
    /\ watcher = "waiting"
    /\ watcher' = "shutdown"
    /\ node' = "cancelled"
    /\ UNCHANGED <<wpc, pidFile, workerPM, netEndpoint, calls, launch_kwargs>>
    /\ UNCHANGED mainVars

\* await plugin_manager.shutdown() is started
WatcherShutdownCall ==
    /\ wpc = "loop"
    /\ watcher = "shutdown"
    /\ watcher' = "shutdown_wait"
    /\ workerPM' = "ShuttingDown"
    /\ calls' = [calls EXCEPT !.worker_shutdown = @ + 1]
    /\ UNCHANGED <<wpc, pidFile, node, netEndpoint, launch_kwargs>>
    /\ UNCHANGED mainVars

\* await plugin_manager.shutdown() completes
WatcherShutdownReturn ==
    /\ wpc = "loop"
    /\ watcher = "shutdown_wait"
    /\ watcher' = "endpoint_stop"
    /\ workerPM' = "Stopped"
    /\ calls' = [calls EXCEPT !.worker_shutdown_returned = @ + 1]
    /\ UNCHANGED <<wpc, pidFile, node, netEndpoint, launch_kwargs>>
    /\ UNCHANGED mainVars

\* endpoint.stop()
WatcherEndpointStop ==
    /\ wpc = "loop"
    /\ watcher = "endpoint_stop"
    /\ watcher' = "loop_stop"
    /\ netEndpoint' = "stopped"
    /\ calls' = [calls EXCEPT !.worker_endpoint_stop = @ + 1]
    /\ UNCHANGED <<wpc, pidFile, node, workerPM, launch_kwargs>>
    /\ UNCHANGED mainVars

\* leaving exit_signal_with_service stops the loop; run_forever returns; loop.close()
WatcherLoopStop ==
    /\ WGoto("loop", "unwind")
    /\ watcher = "loop_stop"
    /\ watcher' = "done"
    /\ UNCHANGED <<pidFile, node, workerPM, netEndpoint, calls, launch_kwargs>>
    /\ UNCHANGED mainVars

\* mutant: an error in the loop leaves launch_node without releasing the marker
WorkerLoopRaise_NoRelease ==
    /\ WGoto("loop", "exited")
    /\ UNCHANGED <<pidFile, watcher, node, workerPM, netEndpoint, calls, launch_kwargs>>
    /\ UNCHANGED mainVars

\* loop.run_forever() raises (an error or an interrupt in the loop): control leaves
\* launch_node through the with block
WorkerLoopRaise ==
    /\ WGoto("loop", "unwind")
    /\ UNCHANGED <<pidFile, watcher, node, workerPM, netEndpoint, calls, launch_kwargs>>
    /\ UNCHANGED mainVars

\* leaving the with block releases the process marker; launch_node ends
WorkerReleasePidFile ==
    /\ WGoto("unwind", "exited")
    /\ pidFile' = "free"
    /\ UNCHANGED <<watcher, node, workerPM, netEndpoint, calls, launch_kwargs>>
    /\ UNCHANGED mainVars

Next ==
    \/ MainConnect \/ MainSetupPlugins \/ MainCheckNetwork \/ MainCheckLogging
    \/ MainSetupStderrLogging \/ MainBuildConfig \/ MainInitDataDir
    \/ MainCheckDbEngine \/ MainSetupFileLogging \/ MainDispatch
    \/ BootListenerStart \/ BootCreateNetworkingEndpoint \/ BootEventBusStart
    \/ BootSpawn \/ BootSubscribe \/ BootPrepare \/ BootRunForever
    \/ PublishShutdownRequest \/ HandleShutdownRequest \/ KeyboardInterrupt
    \/ KillLog \/ KillShutdownBlockingCall \/ KillShutdownBlockingReturn
    \/ KillEndpointStop \/ KillBusStop \/ KillJoinCall \/ Tick \/ KillJoinReturn
    \/ KillIsAlive \/ KillProcessCall \/ KillProcessReturn \/ KillLogTerminated
    \/ KillExit
    \/ WorkerAcquirePidFile \/ WorkerBuildNode \/ WorkerConnect \/ WorkerSetupPlugins
    \/ WorkerPrepare \/ WorkerSchedule \/ WorkerRunForever
    \/ WatcherExitSignal \/ WatcherShutdownCall \/ WatcherShutdownReturn
    \/ WatcherEndpointStop \/ WatcherLoopStop \/ WorkerLoopRaise
    \/ WorkerReleasePidFile

Spec == Init /\ [][Next]_vars

\* the command lines and logger levels of the runs that compute the worker's
\* log_level: every shape of args.log_levels, every level of every logger
LevelArgsSet ==
    [network_id : {MAINNET_NETWORK_ID},
     log_levels : {"None", "empty", "blanket", "named"},
     stderr_log_level_given : BOOLEAN,
     func : {FALSE}]

LevelInit ==
    /\ args \in LevelArgsSet
    /\ env = [from_parser_args |-> "ok", data_dir |-> "initialized",
              db_engine |-> "leveldb", on_disk_database_engine |-> "leveldb"]
    /\ levels \in LevelsFor(args)
    /\ InitState

\* main() and trinity_boot() up to the start of the networking process
LevelNext ==
    \/ MainConnect \/ MainSetupPlugins \/ MainCheckNetwork \/ MainCheckLogging
    \/ MainSetupStderrLogging \/ MainBuildConfig \/ MainInitDataDir
    \/ MainCheckDbEngine \/ MainSetupFileLogging \/ MainDispatch
    \/ BootListenerStart \/ BootCreateNetworkingEndpoint \/ BootEventBusStart
    \/ BootSpawn

LevelSpec == LevelInit /\ [][LevelNext]_vars

(***************************************************************************)
(* Properties                                                              *)
(***************************************************************************)

ConfigSteps ==
    {"main", "setup_plugins", "check_network", "check_logging", "stderr_logging",
     "build_config", "init_data_dir", "check_db_engine", "file_logging", "dispatch"}

\* C1: in both processes the Plugin Host's shutdown has completed before that
\* process's Event Channel is stopped: a stopped main channel means a
\* shutdown_blocking() has returned (in the same execution of the protocol), and a
\* stopped networking channel means the awaited plugin_manager.shutdown() completed.
C1_PluginShutdownBeforeChannelStop ==
    /\ mainEndpoint = "stopped" =>
         calls.shutdown_blocking_returned >= 1 /\ mainPM = "Stopped"
    /\ run.endpoint_stopped => run.shutdown_returned
    /\ calls.endpoint_stop <= calls.shutdown_blocking_returned
    /\ netEndpoint = "stopped" =>
         calls.worker_shutdown_returned >= 1 /\ workerPM = "Stopped"
    /\ calls.worker_endpoint_stop <= calls.worker_shutdown_returned

C1_Witness ==
    /\ mainEndpoint = "stopped"
    /\ netEndpoint = "stopped"
    /\ calls.shutdown_blocking_returned = 1
    /\ calls.worker_shutdown_returned = 1

\* C2 (as claimed): the main-process Shutdown Protocol is executed at most once per
\* run, whatever shutdown events and interrupt signals arrive: no second plugin
\* shutdown, channel stop, broker stop or join.
C2_ShutdownAtMostOnce ==
    /\ calls.protocol <= 1
    /\ calls.shutdown_blocking <= 1
    /\ calls.endpoint_stop <= 1
    /\ calls.bus_stop <= 1
    /\ calls.join <= 1
    /\ calls.kill <= 1

\* C3: forceful termination is attempted only in an execution whose join(2) has been
\* issued and has returned after the whole grace period.
C3_KillOnlyAfterGracePeriod ==
    (run.kills > 0 \/ mpc \in {"kill_process", "kill_process_wait"}) =>
        /\ run.join_issued
        /\ run.join_returned
        /\ run.join_waited = GracePeriod
        /\ run.alive_at_join_return

C3_Witness ==
    /\ mpc = "kill_process_wait"
    /\ run.kills = 1
    /\ run.join_waited = GracePeriod

\* an execution of the protocol that has gone past the is_alive() branch
PastEscalation == run.checked /\ mpc \in {"kill_log_terminated", "kill_exit", "exited"}

\* C4 (as claimed): an execution has invoked the forceful termination exactly once
\* if the worker was alive when join(2) returned, and not at all otherwise.
C4_KillIffAliveAtJoinReturn ==
    PastEscalation => run.kills = (IF run.alive_at_join_return THEN 1 ELSE 0)

\* C4 (amended): an execution has invoked the forceful termination exactly once if
\* is_alive(), evaluated after join(2) returned, found the worker alive, and not at
\* all if it found it exited; it is never invoked twice in one execution.
C4_KillIffAliveAtCheck ==
    /\ run.kills <= 1
    /\ run.kills = 1 => run.checked /\ run.alive_at_check /\ run.join_returned
    /\ PastEscalation => run.kills = (IF run.alive_at_check THEN 1 ELSE 0)

C4_Witness ==
    /\ mpc = "exited"
    /\ run.alive_at_check
    /\ run.kills = 1
    /\ wpc = "killed"

\* the fatal configuration conditions, and the check each is detected at
AmbiguousLogging == args.log_levels = "blanket" /\ args.stderr_log_level_given
AmbiguousAtConfig == env.from_parser_args = "AmbigiousFileSystem"
DataDirFailure == env.data_dir \in {"AmbigiousFileSystem", "MissingPath"}
EngineMismatch == env.db_engine # env.on_disk_database_engine

\* C5: a run with a preconfigured network identifier is never aborted by the network
\* check (and not at all when no other fatal condition holds); a run with any other identifier never gets past that check: the broker is
\* never started, no worker is spawned, no handler subscribed, prepare() never called.
C5_NetworkCheck ==
    /\ args.network_id \in {MAINNET_NETWORK_ID, ROPSTEN_NETWORK_ID} =>
         /\ mainExit # "NotImplementedError"
         /\ mpc = "check_network" => ENABLED MainCheckNetwork
         /\ (~AmbiguousLogging /\ ~AmbiguousAtConfig /\ ~DataDirFailure
               /\ ~EngineMismatch) => mpc # "aborted"
    /\ args.network_id \notin {MAINNET_NETWORK_ID, ROPSTEN_NETWORK_ID} =>
         /\ mpc \in {"main", "setup_plugins", "check_network", "aborted", "crashed"}
         /\ mpc = "aborted" => mainExit = "NotImplementedError"
         /\ busState \in {"none", "created"}
         /\ calls.bus_start = 0
         /\ calls.spawn = 0
         /\ wpc = "not_started"
         /\ calls.subscribe = 0
         /\ calls.prepare = 0
         /\ calls.worker_prepare = 0
         /\ calls.trinity_boot = 0

C5_Witness ==
    /\ args.network_id = "rinkeby"
    /\ mpc = "aborted"
    /\ mainExit = "NotImplementedError"

UpToLoggingCheck == {"main", "setup_plugins", "check_network", "check_logging"}
UpToBuildConfig == UpToLoggingCheck \cup {"stderr_logging", "build_config"}
UpToInitDataDir == UpToBuildConfig \cup {"init_data_dir"}
UpToDbEngineCheck == UpToInitDataDir \cup {"check_db_engine"}

\* C6: each of the other fatal configuration conditions stops the run at the check
\* that detects it: the run never gets past that check, the broker is never started
\* and no worker is spawned; an aborted run stays aborted (nothing is retried).
C6_FatalConfigAborts ==
    /\ AmbiguousLogging => mpc \in UpToLoggingCheck \cup {"aborted", "crashed"}
    /\ AmbiguousAtConfig => mpc \in UpToBuildConfig \cup {"aborted", "crashed"}
    /\ DataDirFailure => mpc \in UpToInitDataDir \cup {"aborted", "crashed"}
    /\ EngineMismatch => mpc \in UpToDbEngineCheck \cup {"aborted", "crashed"}
    /\ (AmbiguousLogging \/ AmbiguousAtConfig \/ DataDirFailure \/ EngineMismatch) =>
         /\ calls.bus_start = 0
         /\ busState \in {"none", "created"}
         /\ calls.spawn = 0
         /\ wpc = "not_started"
         /\ calls.trinity_boot = 0
    /\ mpc = "aborted" =>
         /\ calls.bus_start = 0 /\ calls.spawn = 0 /\ wpc = "not_started"
         /\ mainExit = "NotImplementedError" =>
              args.network_id \notin PRECONFIGURED_NETWORKS
         /\ mainExit = "parser.error: ambiguous logging" => AmbiguousLogging
         /\ mainExit = "parser.error: ambiguous filesystem" =>
              AmbiguousAtConfig \/ env.data_dir = "AmbigiousFileSystem"
         /\ mainExit = "parser.error: missing path" => env.data_dir = "MissingPath"
         /\ mainExit = "parser.error: database engine mismatch" => EngineMismatch

C6_Witness ==
    /\ args.network_id \in PRECONFIGURED_NETWORKS
    /\ ~AmbiguousLogging /\ ~AmbiguousAtConfig /\ ~DataDirFailure
    /\ EngineMismatch
    /\ mpc = "aborted"
    /\ mainExit = "parser.error: database engine mismatch"

\* the run is over: the main process has ended and no networking process runs
RunOver == MainEnded /\ ~WorkerAlive

\* C7 (as claimed): a run that reached trinity_boot has, when it is over, spawned the
\* worker exactly once, subscribed exactly one handler and called prepare() exactly
\* once on each Plugin Host.
C7_ExactlyOncePerRun ==
    (calls.trinity_boot = 1 /\ RunOver) =>
        /\ calls.spawn = 1
        /\ calls.subscribe = 1
        /\ calls.prepare = 1
        /\ calls.worker_prepare = 1

\* C7 (amended): over the whole run, shutdown included, the worker is spawned at
\* most once, at most one handler is subscribed and prepare() is called at most once
\* on each Plugin Host; each main-side step has happened exactly once when the main
\* process has passed prepare(), and the worker's prepare() exactly once when the
\* worker has passed it.
C7_AtMostOnceAndOnceWhenBooted ==
    /\ calls.trinity_boot <= 1
    /\ calls.spawn <= 1
    /\ calls.subscribe <= 1
    /\ calls.prepare <= 1
    /\ calls.worker_prepare <= 1
    /\ (mpc \in {"boot_run_forever", "loop", "exited"} \/ InKill) =>
         calls.spawn = 1 /\ calls.subscribe = 1 /\ calls.prepare = 1
    /\ (wpc \in {"schedule", "run_forever", "loop"} \/ watcher # "none") =>
         calls.worker_prepare = 1 /\ calls.spawn = 1

C7_Witness ==
    /\ mpc = "exited"
    /\ wpc = "exited"
    /\ calls.protocol = 2
    /\ calls.spawn = 1 /\ calls.subscribe = 1
    /\ calls.prepare = 1 /\ calls.worker_prepare = 1

\* C8: whenever the running loop takes a ShutdownRequest off the main channel, the
\* Shutdown Protocol is entered in that step, from the handler, with the reason the
\* event carries (None when it carries none).
C8_EventRunsProtocolWithItsReason ==
    [][(mpc = "loop" /\ mainQueue # <<>> /\ Len(mainQueue') < Len(mainQueue)) =>
          /\ mpc' = "kill_log"
          /\ killCaller' = "handler"
          /\ killArgs'.reason = Head(mainQueue).reason
          /\ calls'.protocol = calls.protocol + 1
          /\ run' = FreshRun]_vars

C8_Witness ==
    /\ killCaller = "handler"
    /\ mpc = "kill_shutdown_blocking"
    /\ killArgs.reason = Str("test")
    /\ hint = <<"(", "test", ")">>

\* C9: an interrupt received while the main process is in its event loop enters the
\* Shutdown Protocol in that step, from the except clause, with the handles the
\* event-triggered path passes and the reason "CTRL+C / Keyboard Interrupt".
C9_InterruptRunsProtocol ==
    [][(mpc = "loop" /\ interrupts' = interrupts + 1) =>
          /\ mpc' = "kill_log"
          /\ killCaller' = "except"
          /\ killArgs' = [HandlerKillArgs([reason |-> None])
                            EXCEPT !.reason = Str("CTRL+C / Keyboard Interrupt")]
          /\ calls'.protocol = calls.protocol + 1
          /\ run' = FreshRun]_vars

C9_Witness ==
    /\ killCaller = "except"
    /\ mpc = "kill_shutdown_blocking"
    /\ calls.protocol = 1
    /\ killArgs.reason = Str("CTRL+C / Keyboard Interrupt")

\* the Shutting down line of the running execution: the last one logged
ShutdownLines == {i \in 1..Len(log) : log[i][1] = "Shutting down Trinity "}
LastShutdownLine == log[CHOOSE i \in ShutdownLines : \A j \in ShutdownLines : j <= i]

\* C10: with a non-empty reason r the shutdown log line and the exit message both
\* carry the hint "(r)"; with no reason or the empty one the hint is empty in both.
\* The line is logged before shutdown_blocking() is called, and the exit message is
\* given when every other step of the execution has been done.
C10_ReasonInLogAndExitMessage ==
    LET r == killArgs.reason
        expected == IF ~r.none /\ r.s # "" THEN <<"(", r.s, ")">> ELSE <<>>
    IN /\ run.logged =>
            /\ ShutdownLines # {}
            /\ LastShutdownLine = <<"Shutting down Trinity ">> \o expected
            /\ (~r.none /\ r.s # "") => Embeds(LastShutdownLine, r.s)
       /\ (InKill /\ mpc # "kill_log") => run.logged
       /\ calls.shutdown_blocking <= Cardinality(ShutdownLines)
       /\ mpc = "exited" =>
            /\ exitMessage = <<"Trinity shutdown complete ">> \o expected \o <<"\n">>
            /\ (~r.none /\ r.s # "") => Embeds(exitMessage, r.s)
       /\ exitMessage # <<>> =>
            /\ mpc = "exited"
            /\ run.logged /\ run.shutdown_returned /\ run.endpoint_stopped
            /\ run.bus_stopped /\ run.join_returned /\ run.checked
            /\ log[Len(log)] = <<"Networking process terminated">>

C10_Witness ==
    /\ mpc = "exited"
    /\ killArgs.reason = Str("test")
    /\ Embeds(exitMessage, "test")
    /\ Embeds(LastShutdownLine, "test")

\* the level values the minimum is taken over: the two loggers' levels and every
\* value of the log_levels mapping (none when the mapping is absent or empty)
ConfiguredLevels ==
    {levels.stderr_logger, levels.file_logger} \cup
    (IF args.log_levels \in {"None", "empty"}
       THEN {}
       ELSE {levels.log_levels[i] : i \in 1..Len(levels.log_levels)})

\* C11: the log_level launch_node is started with is the minimum over the stderr
\* logger's level, the file logger's level and every value of args.log_levels.
C11_WorkerLogLevelIsMinimum ==
    calls.spawn > 0 =>
        /\ launch_kwargs.log_level \in ConfiguredLevels
        /\ \A v \in ConfiguredLevels : launch_kwargs.log_level <= v
        /\ launch_kwargs = extra_kwargs

C11_Witness ==
    /\ calls.spawn = 1
    /\ args.log_levels = "named"
    /\ levels.stderr_logger = 30
    /\ levels.file_logger = 20
    /\ levels.log_levels = <<30, 10>>
    /\ launch_kwargs.log_level = 10

\* C12: the main boot sequence runs in the order: main channel connected,
\* configuration validated, broker started, worker spawned, shutdown handler
\* subscribed, prepare() called, event loop run; each step finds the one before done.
C12_MainBootOrder ==
    /\ calls.trinity_boot > 0 =>
         /\ mainEndpoint # "none"
         /\ args.network_id \in PRECONFIGURED_NETWORKS
         /\ ~AmbiguousLogging /\ ~AmbiguousAtConfig /\ ~DataDirFailure /\ ~EngineMismatch
    /\ calls.create_endpoint_networking > 0 => calls.trinity_boot = 1
    /\ calls.bus_start > 0 => calls.create_endpoint_networking = 1
    /\ mpc = "boot_spawn" => busState = "started"
    /\ (calls.spawn > 0 \/ wpc # "not_started") => calls.bus_start = 1
    /\ calls.subscribe > 0 => calls.spawn = 1
    /\ mpc = "boot_prepare" => calls.subscribe = 1 /\ calls.prepare = 0
    /\ calls.prepare > 0 => calls.subscribe = 1
    /\ mainPM = "Prepared" => calls.subscribe = 1
    /\ mpc = "loop" =>
         /\ calls.prepare = 1 /\ calls.subscribe = 1 /\ calls.spawn = 1
         /\ calls.bus_start = 1 /\ mainPM = "Prepared"

C12_Witness ==
    /\ mpc = "loop"
    /\ busState = "started"
    /\ mainEndpoint = "connected"
    /\ calls.spawn = 1 /\ calls.subscribe = 1 /\ calls.prepare = 1

\* C13 (as claimed): in an execution of the main-process Shutdown Protocol the steps
\* occur in the order shutdown_blocking() returned, main channel stopped, broker
\* stopped, worker joined, exit, none skipped; the broker is stopped after the main
\* channel and before the join, and exactly once per run.
C13_ShutdownStepOrder ==
    /\ run.endpoint_stopped => run.shutdown_returned
    /\ run.bus_stopped => run.endpoint_stopped
    /\ run.join_issued => run.bus_stopped
    /\ run.checked => run.join_returned
    /\ mpc = "kill_bus_stop" => mainEndpoint = "stopped"
    /\ mpc = "kill_join" => busState = "stopped"
    /\ mpc = "exited" =>
         /\ run.shutdown_returned /\ run.endpoint_stopped /\ run.bus_stopped
         /\ run.join_returned /\ run.checked
    /\ calls.bus_stop <= 1
    /\ mpc = "exited" => calls.bus_stop = 1

\* C14 (as claimed): once the main-process Shutdown Protocol has been entered, every
\* step of the main process stays in that one execution until it exits the process:
\* the execution is not abandoned, nothing is started again, the join waits at most
\* the grace period and at most one forceful termination follows.
C14_ProtocolRunsThroughOnce ==
    [][InKill =>
         /\ InKill' \/ mpc' = "exited"
         /\ calls'.protocol = calls.protocol
         /\ run.logged => run'.logged
         /\ run.shutdown_returned => run'.shutdown_returned
         /\ run.bus_stopped => run'.bus_stopped
         /\ run.join_issued => run'.join_issued
         /\ run'.join_waited <= GracePeriod
         /\ run'.kills <= 1]_vars

\* the worker has built its node, connected its channel or called prepare()
WorkerBootStarted ==
    \/ node # "none"
    \/ netEndpoint \in {"connected", "stopped"}
    \/ workerPM # "none"
    \/ calls.worker_prepare > 0

\* C15: in the worker the process marker is acquired before the node is built, the
\* channel connected or a plugin prepared; it is held while launch_node is inside the
\* with block (the loop included) and free once launch_node has ended, also when
\* node construction, prepare() or the loop raised; a failed acquisition leaves all
\* those steps undone.
C15_ProcessMarkerGuardsWorker ==
    /\ wpc \in {"build_node", "connect", "setup_plugins", "prepare", "schedule",
                "run_forever", "loop", "unwind"} => pidFile = "held"
    /\ WorkerBootStarted => (pidFile = "held" \/ wpc = "exited")
    /\ wpc = "exited" => pidFile = "free"
    /\ wpc \in {"not_started", "pid_file", "crashed"} =>
         /\ ~WorkerBootStarted
         /\ watcher = "none"
         /\ pidFile = "free"

C15_Witness ==
    /\ wpc = "exited"
    /\ pidFile = "free"
    /\ node = "running"
    /\ watcher = "waiting"

\* C16: the worker boots in the order node built, channel connected, Plugin Host
\* built and prepare() called, exit watcher and node.run() scheduled, loop run: the
\* channel is connected when prepare() is called, and the watcher and node.run()
\* exist only after prepare() has returned.
C16_WorkerBootOrder ==
    /\ netEndpoint \in {"connected", "stopped"} => node # "none"
    /\ workerPM # "none" => netEndpoint \in {"connected", "stopped"}
    /\ wpc = "prepare" =>
         /\ netEndpoint = "connected" /\ workerPM = "Created"
         /\ calls.worker_prepare = 0
    /\ calls.worker_prepare > 0 => netEndpoint \in {"connected", "stopped"}
    /\ (watcher # "none" \/ node \in {"scheduled", "running", "cancelled"}) =>
         /\ calls.worker_prepare = 1
         /\ workerPM \in {"Prepared", "ShuttingDown", "Stopped"}
    /\ wpc \in {"schedule", "run_forever"} => watcher \in {"none", "scheduled"}
    /\ wpc = "loop" => watcher \notin {"none", "scheduled"} /\ node \in {"running", "cancelled"}

C16_Witness ==
    /\ wpc = "loop"
    /\ watcher = "waiting"
    /\ node = "running"
    /\ workerPM = "Prepared"
    /\ netEndpoint = "connected"

ShutdownBegun == {"ShuttingDown", "Stopped"}

\* C17: on each Plugin Host shutdown is invoked only after that host's prepare() has
\* returned, and prepare() is not invoked on a host whose shutdown has begun.
C17_ShutdownOnlyAfterPrepare ==
    /\ mpc = "kill_shutdown_blocking" => mainPM \in {"Prepared"} \cup ShutdownBegun
    /\ calls.shutdown_blocking > 0 => calls.prepare = 1 /\ mainPM \in ShutdownBegun
    /\ mainPM \in ShutdownBegun => calls.shutdown_blocking > 0
    /\ mpc = "boot_prepare" => mainPM = "Created" /\ calls.shutdown_blocking = 0
    /\ watcher = "shutdown" => workerPM = "Prepared"
    /\ calls.worker_shutdown > 0 => calls.worker_prepare = 1 /\ workerPM \in ShutdownBegun
    /\ workerPM \in ShutdownBegun => calls.worker_shutdown > 0
    /\ wpc = "prepare" => workerPM = "Created" /\ calls.worker_shutdown = 0

C17_Witness ==
    /\ calls.shutdown_blocking = 1 /\ mainPM = "Stopped"
    /\ calls.worker_shutdown = 1 /\ workerPM = "Stopped"

\* the resources the main process owns
MainOwned == <<mainPM, mainEndpoint, busState, calls.join, calls.kill>>

\* the resources the worker's exit watcher owns
WatcherOwned == <<workerPM, netEndpoint>>

\* C18: a step that shuts down the main Plugin Host, stops the main channel or the
\* broker, or joins or kills the worker is a step of the main-process Shutdown
\* Protocol and leaves the worker's Plugin Host and channel alone; a step that shuts
\* down the worker's Plugin Host or stops its channel is a step of the worker's exit
\* watcher and leaves the main channel, the broker and the worker handle alone.
C18_SingleMutator ==
    [][/\ (\/ mainPM' \in ShutdownBegun /\ mainPM' # mainPM
           \/ mainEndpoint' = "stopped" /\ mainEndpoint' # mainEndpoint
           \/ busState' = "stopped" /\ busState' # busState
           \/ calls'.shutdown_blocking # calls.shutdown_blocking
           \/ calls'.endpoint_stop # calls.endpoint_stop
           \/ calls'.bus_stop # calls.bus_stop
           \/ calls'.join # calls.join
           \/ calls'.kill # calls.kill
           \/ wpc' = "killed" /\ wpc # "killed")
          => InKill /\ mpc' # mpc /\ WatcherOwned' = WatcherOwned
       /\ (\/ workerPM' \in ShutdownBegun /\ workerPM' # workerPM
           \/ netEndpoint' = "stopped" /\ netEndpoint' # netEndpoint
           \/ calls'.worker_shutdown # calls.worker_shutdown
           \/ calls'.worker_endpoint_stop # calls.worker_endpoint_stop)
          => /\ wpc = "loop" /\ watcher' # watcher
             /\ MainOwned' = MainOwned /\ wpc' = wpc /\ mpc' = mpc
       /\ InKill /\ mpc' # mpc => WatcherOwned' = WatcherOwned]_vars

C18_Witness ==
    /\ mainPM = "Stopped" /\ mainEndpoint = "stopped" /\ busState = "stopped"
    /\ workerPM = "Stopped" /\ netEndpoint = "stopped"
    /\ calls.join = 1 /\ calls.kill = 0

\* C19 (as claimed): once the worker process has been started, the main process has
\* not ended without a join(2) on the worker that returned and, if the worker was
\* then found alive, a forceful termination that returned.
C19_WorkerJoinedBeforeMainEnds ==
    (MainEnded /\ calls.spawn > 0) =>
        /\ run.join_returned
        /\ run.checked
        /\ run.alive_at_check => run.kill_returned

\* C20: with a subcommand handler in the arguments the boot sequence does not run: the
\* broker is not started, the networking channel not created, no worker spawned, no
\* shutdown handler subscribed, prepare() not called; the handler runs only after
\* every fatal configuration check has passed, and not at all without func.
C20_SubcommandInsteadOfBoot ==
    /\ args.func =>
         /\ calls.trinity_boot = 0 /\ calls.bus_start = 0
         /\ busState \notin {"started", "stopped"}
         /\ calls.create_endpoint_networking = 0 /\ netEndpoint = "none"
         /\ calls.spawn = 0 /\ wpc = "not_started"
         /\ calls.subscribe = 0 /\ calls.prepare = 0 /\ mainPM # "Prepared"
         /\ ~InKill
    /\ calls.func > 0 =>
         /\ args.func /\ calls.func = 1
         /\ args.network_id \in PRECONFIGURED_NETWORKS
         /\ ~AmbiguousLogging /\ ~AmbiguousAtConfig /\ ~DataDirFailure /\ ~EngineMismatch
    /\ ~args.func => calls.func = 0

C20_Witness ==
    /\ args.func
    /\ calls.func = 1
    /\ mpc = "returned"
    /\ mainEndpoint = "connected"

====
